---- MODULE Spec2Model ----
(***************************************************************************)
(* ChronoCiv sprite generator (Tools/generate_sprites.py).                 *)
(*                                                                         *)
(* Three specifications over one set of variables:                         *)
(*   Spec        one run of main(): generate_all_sprites followed by       *)
(*               create_sprite_atlas_config, with filesystem failures;     *)
(*   SpecRaster  create_pixel_image on arbitrary sizes, grids, palettes;   *)
(*   SpecGen     generate_building_sprite / generate_ui_icon on arbitrary  *)
(*               names and sizes, rasterized as their call sites do.       *)
(*                                                                         *)
(* Python values: a str is a TLA+ string; a list is a sequence (index i of *)
(* Python is index i+1 here); a tuple of ints is a sequence of integers;   *)
(* a dict is a function; an optional argument is a sequence of length 0    *)
(* (None) or 1.  A table value that is a str s (line 80) is the 1-tuple    *)
(* <<s>>, so that it differs from every RGBA 4-tuple.                      *)
(***************************************************************************)
EXTENDS Integers, Sequences, FiniteSets, TLC

VARIABLES
    \* ---- Spec: the run of main() ----
    pc,          \* where the run is: "mkdirs", "npc", "building", "terrain",
                 \* "icon", "atlas", "done", "crashed"
    idx,         \* 0-based position in the list the current loop iterates
    dirs,        \* directories that exist under the output directory
    fs,          \* files that exist: path -> content
    saved,       \* the paths reported on stdout ("Saved: ...", "... config saved: ..."), in order
    failedAt,    \* the path whose creation raised (<<>>: nothing raised)
    \* ---- SpecRaster: one call of create_pixel_image ----
    width, height, pixels, palette,   \* the arguments
    rpc,         \* "call", "scan", "returned", "raised"
    color_map,   \* the resolution table (lines 76-96)
    img,         \* the image buffer
    reads,       \* the grid cells (x, y) the scan has read
    raised,      \* the exception that ended the call ("" : none)
    \* ---- SpecGen: calls of one classifier at one size ----
    gfn,         \* "building" or "icon"
    gsize,       \* the size argument <<W, H>>
    results      \* name -> [pixels, img] for the calls made so far

runVars    == <<pc, idx, dirs, fs, saved, failedAt>>
rasterVars == <<width, height, pixels, palette, rpc, color_map, img, reads, raised>>
genVars    == <<gfn, gsize, results>>
vars       == <<runVars, rasterVars, genVars>>

Range(s) == {s[i] : i \in DOMAIN s}
Min(S)   == CHOOSE m \in S : \A n \in S : m <= n

----------------------------------------------------------------------------
(* Static tables, lines 13-69 *)

PALETTES ==
    [ stone_age |->
        [ skin     |-> <<"#D4A574", "#C49A6C", "#B8956A">>,
          clothing |-> <<"#8B4513", "#654321", "#4A3728">>,
          hair     |-> <<"#2C1810", "#3D2314", "#1A0F0A">>,
          terrain  |-> <<"#7CFC00", "#228B22", "#808080", "#8B7355">> ],
      ancient |->
        [ skin     |-> <<"#F5D0A9", "#E5BE98", "#D4A574">>,
          clothing |-> <<"#E6C288", "#D4B896", "#C4A876">>,
          hair     |-> <<"#1A1A1A", "#3D3D3D", "#4A4A4A">>,
          terrain  |-> <<"#DEB887", "#D2B48C", "#BC8F8F", "#8B7355">> ],
      classical |->
        [ skin     |-> <<"#F5DEB3", "#FFE4C4", "#DEB887">>,
          clothing |-> <<"#FFFFFF", "#F5F5DC", "#E8E8D8">>,
          hair     |-> <<"#FFD700", "#DAA520", "#B8860B">>,
          terrain  |-> <<"#F5F5F5", "#D3D3D3", "#C0C0C0", "#A9A9A9">> ],
      medieval |->
        [ skin     |-> <<"#F5DEB3", "#DEB887", "#D2B48C">>,
          clothing |-> <<"#8B0000", "#4A0080", "#000080", "#2F4F4F">>,
          hair     |-> <<"#2F2F2F", "#4A4A4A", "#696969">>,
          terrain  |-> <<"#8B4513", "#A0522D", "#6B8E23", "#556B2F">> ],
      renaissance |->
        [ skin     |-> <<"#FFE4C4", "#FFDAB9", "#F5DEB3">>,
          clothing |-> <<"#800020", "#4B0082", "#00008B", "#006400">>,
          hair     |-> <<"#2F2F2F", "#4A3728", "#8B4513">>,
          terrain  |-> <<"#DAA520", "#B8860B", "#CD853F", "#D2691E">> ],
      industrial |->
        [ skin     |-> <<"#FFE4C4", "#F5DEB3", "#DEB887">>,
          clothing |-> <<"#2F2F2F", "#4A4A4A", "#696969", "#808080">>,
          hair     |-> <<"#1A1A1A", "#2F2F2F", "#4A4A4A">>,
          terrain  |-> <<"#696969", "#808080", "#A9A9A9", "#C0C0C0">> ],
      modern |->
        [ skin     |-> <<"#FFE4C4", "#F5DEB3", "#DEB887", "#C4A574">>,
          clothing |-> <<"#000080", "#8B0000", "#2F4F4F", "#4A0080">>,
          hair     |-> <<"#1A1A1A", "#4A4A4A", "#8B4513", "#D2B48C">>,
          terrain  |-> <<"#808080", "#A9A9A9", "#C0C0C0", "#D3D3D3">> ],
      future |->
        [ skin     |-> <<"#E8E8E8", "#D0D0D0", "#B8B8B8">>,
          clothing |-> <<"#00FFFF", "#FF00FF", "#FFFF00", "#00FF00">>,
          hair     |-> <<"#00CED1", "#9400D3", "#00FF00", "#FF1493">>,
          terrain  |-> <<"#1a1a2e", "#16213e", "#0f3460", "#533483">> ] ]

\* PALETTES.keys(): a dict iterates in insertion order
ERAS == <<"stone_age", "ancient", "classical", "medieval",
          "renaissance", "industrial", "modern", "future">>

ANIMATIONS == <<"idle", "walk", "run", "work", "attack", "sleep">>

DIRECTIONS == <<"up", "down", "left", "right">>

buildings == <<"cave", "tent", "campfire", "hut", "house", "castle", "palace",
               "factory", "skyscraper", "temple", "market">>

terrains == <<"grassland", "forest", "desert", "ocean", "mountain", "snow", "swamp">>

icons == <<"food", "wood", "stone", "gold", "iron", "population", "science",
           "culture", "faith", "happy", "military">>

----------------------------------------------------------------------------
(* create_pixel_image, lines 71-108 *)

None    == <<>>
Some(p) == <<p>>

\* `if palette:` (line 76): None and the empty dict are both falsy
Truthy(opt) == Len(opt) = 1 /\ DOMAIN opt[1] # {}

Transparent == <<0, 0, 0, 0>>

\* every colour of every category list of a palette (lines 78-79)
PaletteColors(p) == UNION {Range(p[category]) : category \in DOMAIN p}

\* lines 81-86: the entries set after the palette's colours, which they overwrite
FixedWithPalette ==
    [ tok \in {"transparent", "#000000", "#FFFFFF", "#2F2F2F", "stone", "terrain"} |->
        CASE tok = "transparent" -> <<0, 0, 0, 0>>
          [] tok = "#000000"     -> <<0, 0, 0, 255>>
          [] tok = "#FFFFFF"     -> <<255, 255, 255, 255>>
          [] tok = "#2F2F2F"     -> <<47, 47, 47, 255>>
          [] tok = "stone"       -> <<128, 128, 128, 255>>
          [] tok = "terrain"     -> <<139, 69, 19, 255>> ]

\* variant of ColorMapWithPalette: the table keyed by the palette's category
\* names, each resolved to an opaque colour
ColorMapByCategory(p) ==
    FixedWithPalette @@ [category \in DOMAIN p |-> <<212, 165, 116, 255>>]

\* lines 77-86: color_map[color] = color stores the hex string itself
ColorMapWithPalette(p) ==
    FixedWithPalette @@ [color \in PaletteColors(p) |-> <<color>>]

\* lines 88-96
DefaultColorMap ==
    [ tok \in {"transparent", "#8B4513", "#228B22", "#D2B48C", "#2F2F2F", "stone", "terrain"} |->
        CASE tok = "transparent" -> <<0, 0, 0, 0>>
          [] tok = "#8B4513"     -> <<139, 69, 19, 255>>
          [] tok = "#228B22"     -> <<34, 139, 34, 255>>
          [] tok = "#D2B48C"     -> <<210, 180, 140, 255>>
          [] tok = "#2F2F2F"     -> <<47, 47, 47, 255>>
          [] tok = "stone"       -> <<128, 128, 128, 255>>
          [] tok = "terrain"     -> <<139, 69, 19, 255>> ]

\* variant of BuildColorMap: one fixed default map for both cases, a supplied
\* palette's colours added to it
BuildColorMapOneDefault(opt) ==
    (FixedWithPalette @@ DefaultColorMap)
        @@ (IF Truthy(opt) THEN [color \in PaletteColors(opt[1]) |-> <<color>>] ELSE <<>>)

\* lines 76-96
BuildColorMap(opt) ==
    IF Truthy(opt) THEN ColorMapWithPalette(opt[1]) ELSE DefaultColorMap

\* Image.new('RGBA', (width, height), (0, 0, 0, 0)), line 98
NewImage(w, h) ==
    [ size |-> <<w, h>>,
      px   |-> [c \in (0 .. w - 1) \X (0 .. h - 1) |-> Transparent] ]

\* the guard of line 103
GridHasCell(grid, y, x) == y < Len(grid) /\ x < Len(grid[y + 1])

\* pixels[y][x] (line 104) raises IndexError outside the lists
IndexInRange(grid, y, x) ==
    /\ y + 1 \in DOMAIN grid
    /\ x + 1 \in DOMAIN grid[y + 1]

\* pixels_img[x, y] = value (line 106): PIL's PixelAccess takes a tuple of the
\* image's bands (or an int) and raises TypeError for a str
PutPixelAccepts(value) == Len(value) = 4

\* one iteration of the loop body, lines 103-106
CellOutcome(grid, cmap, y, x) ==
    IF ~GridHasCell(grid, y, x) THEN "skip"
    ELSE IF ~IndexInRange(grid, y, x) THEN "IndexError"
    ELSE IF grid[y + 1][x + 1] \notin DOMAIN cmap THEN "miss"
    ELSE IF ~PutPixelAccepts(cmap[grid[y + 1][x + 1]]) THEN "TypeError"
    ELSE "write"

\* lines 98-108.  The scan visits the cells in row-major order (cell number
\* k = y * width + x) and stops at the first one that raises; the result is
\* the buffer as the scan left it, the cells it read and the exception.
ScanImage(w, h, grid, cmap) ==
    LET n      == w * h
        Y(k)   == k \div w
        X(k)   == k % w
        out(k) == CellOutcome(grid, cmap, Y(k), X(k))
        fails  == {k \in 0 .. n - 1 : out(k) \in {"IndexError", "TypeError"}}
        stop   == IF fails = {} THEN n ELSE Min(fails)
        new    == NewImage(w, h)
    IN  [ img |-> [ size |-> new.size,
                    px   |-> [c \in DOMAIN new.px |->
                                IF /\ c[2] * w + c[1] < stop
                                   /\ CellOutcome(grid, cmap, c[2], c[1]) = "write"
                                THEN cmap[grid[c[2] + 1][c[1] + 1]]
                                ELSE new.px[c]] ],
          reads  |-> {<<X(k), Y(k)>> : k \in {j \in 0 .. n - 1 :
                         j <= stop /\ out(j) \in {"miss", "write", "TypeError"}}},
          raised |-> IF fails = {} THEN "" ELSE out(stop) ]

create_pixel_image(w, h, grid, opt) == ScanImage(w, h, grid, BuildColorMap(opt))

----------------------------------------------------------------------------
(* SpecRaster: create_pixel_image on arbitrary arguments *)

MaxDim    == 2
MaxRows   == 2
MaxRowLen == 2

\* tokens a grid cell may hold: a key of both fixed tables, and a hex colour
\* that is in the default table and in stone_age's palette but not in ancient's
CellTokens == {"stone", "#8B4513"}

GridRows == UNION {[1 .. m -> CellTokens] : m \in 0 .. MaxRowLen}
Grids    == UNION {[1 .. n -> GridRows] : n \in 0 .. MaxRows}

\* {} and {"skin": []}: a dict with no category, one with no colour
EmptyPalette  == [category \in {} |-> <<>>]
HollowPalette == [category \in {"skin"} |-> <<>>]

PaletteArgs ==
    {None, Some(EmptyPalette), Some(HollowPalette)}
        \cup {Some(PALETTES[era]) : era \in DOMAIN PALETTES}

\* the palettes every grid is scanned under
ScanPalettes == {None, Some(PALETTES["stone_age"]), Some(PALETTES["ancient"])}

\* the grids every palette is scanned under: one cell
UnitGrids == {<<<<tok>>>> : tok \in CellTokens \cup {"skin"}}

RasterIdle ==
    /\ width = 0 /\ height = 0 /\ pixels = <<>> /\ palette = None
    /\ rpc = "idle" /\ color_map = <<>> /\ img = NewImage(0, 0)
    /\ reads = {} /\ raised = ""

RasterInit ==
    /\ width \in 0 .. MaxDim
    /\ height \in 0 .. MaxDim
    /\ \E arg \in (ScanPalettes \X Grids) \cup (PaletteArgs \X UnitGrids) :
         palette = arg[1] /\ pixels = arg[2]
    /\ rpc = "call"
    /\ color_map = <<>>
    /\ img = NewImage(0, 0)
    /\ reads = {}
    /\ raised = ""

\* lines 76-96
ResolveTable ==
    /\ rpc = "call"
    /\ color_map' = BuildColorMap(palette)
    /\ rpc' = "scan"
    /\ UNCHANGED <<width, height, pixels, palette, img, reads, raised>>
    /\ UNCHANGED <<runVars, genVars>>

\* lines 98-108
Rasterize ==
    /\ rpc = "scan"
    /\ LET r == ScanImage(width, height, pixels, color_map) IN
         /\ img' = r.img
         /\ reads' = r.reads
         /\ raised' = r.raised
         /\ rpc' = IF r.raised = "" THEN "returned" ELSE "raised"
    /\ UNCHANGED <<width, height, pixels, palette, color_map>>
    /\ UNCHANGED <<runVars, genVars>>

----------------------------------------------------------------------------
(* The region classifiers, lines 110-175 *)

\* lines 118-125
NpcToken(y) ==
    IF y < 4 THEN "skin"
    ELSE IF y < 8 THEN "skin"
    ELSE IF y < 16 THEN "clothing"
    ELSE "clothing"

\* lines 110-128
generate_npc_base_sprite(size) ==
    [r \in 1 .. size[2] |-> [c \in 1 .. size[1] |-> NpcToken(r - 1)]]

\* variant of BuildingToken: three independent ifs, a later band overwriting
\* an earlier one
BuildingTokenLastWins(y, h) ==
    IF y >= h - 4 THEN "#2F2F2F"
    ELSE IF y < h - 4 THEN "stone"
    ELSE "terrain"

\* lines 138-143
BuildingToken(y, h) ==
    IF y < 4 THEN "terrain"
    ELSE IF y < h - 4 THEN "stone"
    ELSE "#2F2F2F"

\* variant of generate_building_sprite: the walls of a tent are brown
generate_building_sprite_by_type(building_type, size) ==
    [r \in 1 .. size[2] |-> [c \in 1 .. size[1] |->
        IF building_type = "tent" /\ BuildingToken(r - 1, size[2]) = "stone"
        THEN "#8B4513"
        ELSE BuildingToken(r - 1, size[2])]]

\* lines 130-146
generate_building_sprite(building_type, size) ==
    [r \in 1 .. size[2] |-> [c \in 1 .. size[1] |-> BuildingToken(r - 1, size[2])]]

\* variant of generate_terrain_tile: the cells hold the alias 'terrain'
generate_terrain_tile_alias(size) ==
    [r \in 1 .. size[2] |-> [c \in 1 .. size[1] |-> "terrain"]]

\* lines 148-159
generate_terrain_tile(size) ==
    [r \in 1 .. size[2] |-> [c \in 1 .. size[1] |-> "terrain_base"]]

\* variant of IconToken: the right and bottom margins one pixel narrower
IconTokenNarrowMargin(x, y, w, h) ==
    IF y < 2 \/ y > h - 2 \/ x < 2 \/ x > w - 2 THEN "border" ELSE "background"

\* lines 169-172
IconToken(x, y, w, h) ==
    IF y < 2 \/ y >= h - 2 \/ x < 2 \/ x >= w - 2 THEN "border" ELSE "background"

\* lines 161-175
generate_ui_icon(icon_type, size) ==
    [r \in 1 .. size[2] |-> [c \in 1 .. size[1] |-> IconToken(c - 1, r - 1, size[1], size[2])]]

\* the default sizes of the classifiers (lines 110, 130, 148, 161), which are
\* the sizes their call sites rasterize at (lines 211, 222, 232, 243)
NpcSize      == <<16, 24>>
BuildingSize == <<32, 32>>
TerrainSize  == <<16, 16>>
IconSize     == <<16, 16>>

----------------------------------------------------------------------------
(* SpecGen: the named classifiers called at one size, each grid rasterized *)
(* without a palette as at lines 221-222 and 242-243                       *)

MaxGenWidth  == 16
MaxGenHeight == 9
MaxNames     == 3

GenNames(fn) ==
    {(IF fn = "building" THEN buildings ELSE icons)[i] : i \in 1 .. MaxNames}

GenIdle == gfn = "idle" /\ gsize = <<0, 0>> /\ results = <<>>

GenInit ==
    /\ gfn \in {"building", "icon"}
    /\ gsize \in (0 .. MaxGenWidth) \X (0 .. MaxGenHeight)
    /\ results = <<>>

\* lines 221-222
CallBuilding(name) ==
    /\ gfn = "building"
    /\ name \notin DOMAIN results
    /\ LET base_pixels == generate_building_sprite(name, gsize) IN
         results' = results @@ (name :>
             [ pixels |-> base_pixels,
               img    |-> create_pixel_image(gsize[1], gsize[2], base_pixels, None).img ])
    /\ UNCHANGED <<gfn, gsize>>
    /\ UNCHANGED <<runVars, rasterVars>>

\* lines 242-243
CallIcon(name) ==
    /\ gfn = "icon"
    /\ name \notin DOMAIN results
    /\ LET base_pixels == generate_ui_icon(name, gsize) IN
         results' = results @@ (name :>
             [ pixels |-> base_pixels,
               img    |-> create_pixel_image(gsize[1], gsize[2], base_pixels, None).img ])
    /\ UNCHANGED <<gfn, gsize>>
    /\ UNCHANGED <<runVars, rasterVars>>

----------------------------------------------------------------------------
(* Spec: one run of main(), lines 269-283.  Paths are sequences of         *)
(* components below the output directory (<<>>).                           *)

\* lines 185-190
output_path   == <<>>
sprites_path  == output_path \o <<"Sprites">>
npc_path      == sprites_path \o <<"NPCs">>
building_path == sprites_path \o <<"Buildings">>
terrain_path  == sprites_path \o <<"Terrain">>
ui_path       == sprites_path \o <<"UI">>

\* line 262
config_file == output_path \o <<"sprite_atlas_config.json">>

\* os.path.dirname
dirname(path) == SubSeq(path, 1, Len(path) - 1)

\* the directories mkdir(parents=True) / os.makedirs leave existing
WithParents(path) == {SubSeq(path, 1, k) : k \in 0 .. Len(path)}

\* line 193
TopDirs == <<npc_path, building_path, terrain_path, ui_path>>

\* the nested loops of lines 198, 202, 206, flattened: iteration i (from 0)
NpcCount        == Len(ERAS) * Len(ANIMATIONS) * Len(DIRECTIONS)
NpcEra(i)       == ERAS[(i \div (Len(ANIMATIONS) * Len(DIRECTIONS))) + 1]
NpcAnimation(i) == ANIMATIONS[((i \div Len(DIRECTIONS)) % Len(ANIMATIONS)) + 1]
NpcDirection(i) == DIRECTIONS[(i % Len(DIRECTIONS)) + 1]

\* variant of NpcFile: one file name for the four directions
NpcFileNoDirection(i) ==
    npc_path \o <<NpcEra(i), NpcAnimation(i), "sprite.png">>

\* variant of NpcFile: the direction loop outside the animation loop
NpcFileDirectionOuter(i) ==
    npc_path \o <<NpcEra(i),
                  ANIMATIONS[(i % Len(ANIMATIONS)) + 1],
                  DIRECTIONS[((i \div Len(ANIMATIONS)) % Len(DIRECTIONS)) + 1] \o ".png">>

\* lines 199, 203, 208-209
NpcFile(i) ==
    npc_path \o <<NpcEra(i), NpcAnimation(i), NpcDirection(i) \o ".png">>

\* line 220
BuildingFile(i) == building_path \o <<buildings[i + 1] \o ".png">>

\* line 230
TerrainFile(i) == terrain_path \o <<terrains[i + 1] \o ".png">>

\* line 241
IconFile(i) == ui_path \o <<icons[i + 1] \o ".png">>

\* variant of AtlasConfig: the sprite list filled with the images saved
AtlasConfigListingSaved ==
    [ atlas_name |-> "ChronoCiv_Sprites",
      sprites    |-> saved,
      packing    |-> [power_of_two |-> TRUE, padding |-> 2, extrude |-> 1] ]

\* lines 251-259
AtlasConfig ==
    [ atlas_name |-> "ChronoCiv_Sprites",
      sprites    |-> <<>>,
      packing    |-> [power_of_two |-> TRUE, padding |-> 2, extrude |-> 1] ]

\* img.save(filepath, 'PNG'), line 180: the file holds the image's size and
\* its pixels in row-major order, compressed without loss; here as the runs
\* <<count, colour>> of equal consecutive pixels
PixelNumber(image, k) == image.px[<<k % image.size[1], k \div image.size[1]>>]

PngEncode(image) ==
    LET n      == image.size[1] * image.size[2]
        starts == {k \in 0 .. n - 1 :
                      k = 0 \/ PixelNumber(image, k) # PixelNumber(image, k - 1)}
        nth(i) == CHOOSE b \in starts : Cardinality({c \in starts : c < b}) = i - 1
        end(i) == IF i = Cardinality(starts) THEN n ELSE nth(i + 1)
    IN  [ size |-> image.size,
          runs |-> [i \in 1 .. Cardinality(starts) |->
                      <<end(i) - nth(i), PixelNumber(image, nth(i))>>] ]

\* the colour of pixel number k of a file's runs
RECURSIVE RunColour(_, _)
RunColour(runs, k) ==
    IF k < runs[1][1] THEN runs[1][2] ELSE RunColour(Tail(runs), k - runs[1][1])

\* the image an importer reads back from a PNG file
PngDecode(png) ==
    [ size |-> png.size,
      px   |-> [c \in (0 .. png.size[1] - 1) \X (0 .. png.size[2] - 1) |->
                  RunColour(png.runs, c[2] * png.size[1] + c[1])] ]

\* a file's content: what was written, or nothing of it when the write raised
\* after the file was created
PngFile(image)   == [kind |-> "png", data |-> <<PngEncode(image)>>]
JsonFile(config) == [kind |-> "json", data |-> <<config>>]
Truncated(k)     == [kind |-> k, data |-> <<>>]

RunIdle ==
    /\ pc = "idle" /\ idx = 0 /\ dirs = {} /\ fs = <<>>
    /\ saved = <<>> /\ failedAt = None

\* a fresh output directory
RunInit ==
    /\ pc = "mkdirs"
    /\ idx = 0
    /\ dirs = {}
    /\ fs = <<>>
    /\ saved = <<>>
    /\ failedAt = None

\* an exception nothing catches (lines 282-283 have no handler): the run ends
Crash(path) ==
    /\ pc' = "crashed"
    /\ failedAt' = Some(path)
    /\ UNCHANGED <<idx, saved>>

\* lines 193-194; the j-th mkdir may raise
MakeDirs ==
    /\ pc = "mkdirs"
    /\ \/ /\ dirs' = dirs \cup UNION {WithParents(TopDirs[j]) : j \in DOMAIN TopDirs}
          /\ pc' = "npc"
          /\ idx' = 0
          /\ UNCHANGED <<fs, saved, failedAt>>
       \/ \E j \in DOMAIN TopDirs :
            /\ dirs' = dirs \cup UNION {WithParents(TopDirs[k]) : k \in 1 .. j - 1}
            /\ Crash(TopDirs[j])
            /\ UNCHANGED fs
    /\ UNCHANGED <<rasterVars, genVars>>

\* save_sprite_pil, lines 177-181, after the create_pixel_image call whose
\* result is r: the call's exception propagates; makedirs or the save may
\* raise, the save before or after it has created the file
SaveSprite(r, filepath, nextpc, nextidx) ==
    \/ /\ r.raised = ""
       /\ dirs' = dirs \cup WithParents(dirname(filepath))
       /\ fs' = (filepath :> PngFile(r.img)) @@ fs
       /\ saved' = Append(saved, filepath)
       /\ pc' = nextpc
       /\ idx' = nextidx
       /\ UNCHANGED failedAt
    \/ /\ r.raised # ""
       /\ Crash(filepath)
       /\ UNCHANGED <<dirs, fs>>
    \/ /\ r.raised = ""
       /\ Crash(filepath)
       /\ dirs' \in {dirs, dirs \cup WithParents(dirname(filepath))}
       /\ fs' \in {fs, (filepath :> Truncated("png")) @@ fs}

\* lines 198-212, one iteration of the innermost loop (with the mkdir of the
\* era and animation directories that precede it)
SaveNpc ==
    /\ pc = "npc"
    /\ LET base_pixels == generate_npc_base_sprite(NpcSize)
           r == create_pixel_image(16, 24, base_pixels, Some(PALETTES[NpcEra(idx)]))
       IN  IF idx + 1 < NpcCount
           THEN SaveSprite(r, NpcFile(idx), "npc", idx + 1)
           ELSE SaveSprite(r, NpcFile(idx), "building", 0)
    /\ UNCHANGED <<rasterVars, genVars>>

\* lines 219-223
SaveBuilding ==
    /\ pc = "building"
    /\ LET base_pixels == generate_building_sprite(buildings[idx + 1], BuildingSize)
           r == create_pixel_image(32, 32, base_pixels, None)
       IN  IF idx + 1 < Len(buildings)
           THEN SaveSprite(r, BuildingFile(idx), "building", idx + 1)
           ELSE SaveSprite(r, BuildingFile(idx), "terrain", 0)
    /\ UNCHANGED <<rasterVars, genVars>>

\* lines 229-233
SaveTerrain ==
    /\ pc = "terrain"
    /\ LET base_pixels == generate_terrain_tile(TerrainSize)
           r == create_pixel_image(16, 16, base_pixels, None)
       IN  IF idx + 1 < Len(terrains)
           THEN SaveSprite(r, TerrainFile(idx), "terrain", idx + 1)
           ELSE SaveSprite(r, TerrainFile(idx), "icon", 0)
    /\ UNCHANGED <<rasterVars, genVars>>

\* lines 240-244
SaveIcon ==
    /\ pc = "icon"
    /\ LET base_pixels == generate_ui_icon(icons[idx + 1], IconSize)
           r == create_pixel_image(16, 16, base_pixels, None)
       IN  IF idx + 1 < Len(icons)
           THEN SaveSprite(r, IconFile(idx), "icon", idx + 1)
           ELSE SaveSprite(r, IconFile(idx), "atlas", 0)
    /\ UNCHANGED <<rasterVars, genVars>>

\* create_sprite_atlas_config, lines 249-267: open() or json.dump may raise
WriteAtlasConfig ==
    /\ pc = "atlas"
    /\ \/ /\ fs' = (config_file :> JsonFile(AtlasConfig)) @@ fs
          /\ saved' = Append(saved, config_file)
          /\ pc' = "done"
          /\ UNCHANGED <<idx, failedAt>>
       \/ /\ Crash(config_file)
          /\ fs' \in {fs, (config_file :> Truncated("json")) @@ fs}
    /\ UNCHANGED dirs
    /\ UNCHANGED <<rasterVars, genVars>>

Init == RunInit /\ RasterIdle /\ GenIdle

Next ==
    \/ MakeDirs
    \/ SaveNpc
    \/ SaveBuilding
    \/ SaveTerrain
    \/ SaveIcon
    \/ WriteAtlasConfig

Spec == Init /\ [][Next]_vars

InitRaster == RasterInit /\ RunIdle /\ GenIdle

NextRaster ==
    \/ ResolveTable
    \/ Rasterize

SpecRaster == InitRaster /\ [][NextRaster]_vars

InitGen == GenInit /\ RunIdle /\ RasterIdle

NextGen ==
    \/ \E name \in GenNames("building") : CallBuilding(name)
    \/ \E name \in GenNames("icon") : CallIcon(name)

SpecGen == InitGen /\ [][NextGen]_vars

----------------------------------------------------------------------------
(* Properties of the run (Spec) *)

Complete(path) == path \in DOMAIN fs /\ fs[path].data # <<>>
ImageOf(path)  == PngDecode(fs[path].data[1])
Under(dir)     == {path \in DOMAIN fs : Len(path) > Len(dir) /\ SubSeq(path, 1, Len(dir)) = dir}

AllTransparent(image) == \A c \in DOMAIN image.px : image.px[c] = <<0, 0, 0, 0>>
HasSize(image, w, h) ==
    /\ image.size = <<w, h>>
    /\ DOMAIN image.px = (0 .. w - 1) \X (0 .. h - 1)

AfterNpcs == pc \in {"building", "terrain", "icon", "atlas", "done"}

\* C1: for every era, animation and direction the character image, built by
\* create_pixel_image(16, 24, generate_npc_base_sprite(), PALETTES[era]), is
\* 16 wide, 24 high and fully transparent at every pixel, and 'skin' and
\* 'clothing' are keys of no era's resolution table.
C1_CharactersTransparent ==
    /\ \A era \in DOMAIN PALETTES :
         {"skin", "clothing"} \cap DOMAIN BuildColorMap(Some(PALETTES[era])) = {}
    /\ \A path \in Under(npc_path) :
         Complete(path) =>
            /\ HasSize(ImageOf(path), 16, 24)
            /\ AllTransparent(ImageOf(path))
    /\ AfterNpcs =>
         \A e \in DOMAIN ERAS, a \in DOMAIN ANIMATIONS, d \in DOMAIN DIRECTIONS :
            Complete(<<"Sprites", "NPCs", ERAS[e], ANIMATIONS[a], DIRECTIONS[d] \o ".png">>)

C1_Witness ==
    /\ pc = "done"
    /\ Complete(<<"Sprites", "NPCs", "future", "sleep", "right.png">>)
    /\ Complete(<<"Sprites", "NPCs", "stone_age", "idle", "up.png">>)

\* C3: every cell of generate_terrain_tile's grid is 'terrain_base', a key of
\* no resolution table (with any palette or none), so the 7 terrain images
\* are identical whatever the terrain's name and fully transparent.
C3_TerrainTransparent ==
    /\ \A size \in ((0 .. MaxDim) \X (0 .. MaxDim)) \cup {TerrainSize} :
         LET grid == generate_terrain_tile(size) IN
           /\ Len(grid) = size[2]
           /\ \A r \in DOMAIN grid :
                Len(grid[r]) = size[1] /\ \A c \in DOMAIN grid[r] : grid[r][c] = "terrain_base"
    /\ \A opt \in PaletteArgs : "terrain_base" \notin DOMAIN BuildColorMap(opt)
    /\ \A p1 \in Under(terrain_path), p2 \in Under(terrain_path) :
         Complete(p1) /\ Complete(p2) =>
            /\ ImageOf(p1) = ImageOf(p2)
            /\ HasSize(ImageOf(p1), 16, 16)
            /\ AllTransparent(ImageOf(p1))
    /\ pc \in {"icon", "atlas", "done"} =>
         \A i \in DOMAIN terrains :
            Complete(<<"Sprites", "Terrain", terrains[i] \o ".png">>)

C3_Witness ==
    /\ pc = "icon"
    /\ Complete(<<"Sprites", "Terrain", "grassland.png">>)
    /\ Complete(<<"Sprites", "Terrain", "swamp.png">>)

SavedImages == Range(saved) \ {config_file}
SavedUnder(dir) == {path \in SavedImages : Len(path) > Len(dir) /\ SubSeq(path, 1, Len(dir)) = dir}

\* C5: a complete run writes exactly 221 pairwise distinct image paths (192
\* characters, 11 buildings, 7 terrains, 11 icons) and exactly one descriptor
\* path, and no path is written twice within a run.
C5_OutputCardinality ==
    /\ \A i \in DOMAIN saved, j \in DOMAIN saved : i # j => saved[i] # saved[j]
    /\ pc = "done" =>
         /\ Len(saved) = 222
         /\ Cardinality(SavedImages) = 221
         /\ Cardinality(SavedUnder(npc_path)) = 192
         /\ Cardinality(SavedUnder(building_path)) = 11
         /\ Cardinality(SavedUnder(terrain_path)) = 7
         /\ Cardinality(SavedUnder(ui_path)) = 11
         /\ Cardinality({i \in DOMAIN saved : saved[i] = config_file}) = 1
         /\ DOMAIN fs = Range(saved)
         /\ \A path \in DOMAIN fs : Complete(path)

C5_Witness == pc = "done" /\ Len(saved) = 222 /\ Cardinality(DOMAIN fs) = 222

\* C6: whenever the atlas descriptor is written, its 'sprites' list is empty
\* and its other fields are the fixed values, whatever the run has written
\* before it.
C6_AtlasFixed ==
    Complete(config_file) =>
        LET config == fs[config_file].data[1] IN
          /\ fs[config_file].kind = "json"
          /\ DOMAIN config = {"atlas_name", "sprites", "packing"}
          /\ config.sprites = <<>>
          /\ config.atlas_name = "ChronoCiv_Sprites"
          /\ DOMAIN config.packing = {"power_of_two", "padding", "extrude"}
          /\ config.packing.power_of_two = TRUE
          /\ config.packing.padding = 2
          /\ config.packing.extrude = 1

C6_Witness ==
    /\ Complete(config_file)
    /\ Cardinality(SavedImages) = 221
    /\ saved[Len(saved)] = config_file

\* the enumeration order as the claim states it: characters by era, then
\* animation, then direction; buildings; terrains; icons; the descriptor
ExpectedOrder ==
    [k \in 1 .. 192 |->
        <<"Sprites", "NPCs",
          ERAS[((k - 1) \div 24) + 1],
          ANIMATIONS[(((k - 1) \div 4) % 6) + 1],
          DIRECTIONS[((k - 1) % 4) + 1] \o ".png">>]
    \o [k \in 1 .. 11 |-> <<"Sprites", "Buildings", buildings[k] \o ".png">>]
    \o [k \in 1 .. 7 |-> <<"Sprites", "Terrain", terrains[k] \o ".png">>]
    \o [k \in 1 .. 11 |-> <<"Sprites", "UI", icons[k] \o ".png">>]
    \o << <<"sprite_atlas_config.json">> >>

Prefix(n) == {ExpectedOrder[k] : k \in 1 .. n}

OrderedSoFar ==
    LET n == Len(saved) IN
      /\ n <= Len(ExpectedOrder)
      /\ saved = SubSeq(ExpectedOrder, 1, n)
      /\ \/ DOMAIN fs = Prefix(n)
         \/ /\ pc = "crashed"
            /\ n < Len(ExpectedOrder)
            /\ failedAt = Some(ExpectedOrder[n + 1])
            /\ DOMAIN fs = Prefix(n + 1)
      /\ config_file \in DOMAIN fs => n >= 221
      /\ pc = "crashed" /\ failedAt # Some(config_file) => config_file \notin DOMAIN fs

OneAtATime ==
    /\ Len(saved') <= Len(saved) + 1
    /\ Cardinality(DOMAIN fs') <= Cardinality(DOMAIN fs) + 1
    /\ pc = "crashed" => UNCHANGED fs

\* C10: within one run the files are written one at a time in the fixed
\* enumeration order; at every point, also after a write has failed and ended
\* the run, the paths written so far are a prefix of that order; the
\* descriptor is written only after all 221 images and never after a failed
\* image write.
C10_PrefixOrder == []OrderedSoFar /\ [][OneAtATime]_vars

C10_Witness ==
    /\ pc = "crashed"
    /\ failedAt = Some(<<"Sprites", "Buildings", "hut.png">>)
    /\ <<"Sprites", "Buildings", "hut.png">> \in DOMAIN fs
    /\ Len(saved) = 195

----------------------------------------------------------------------------
(* Properties of the classifiers (SpecGen) *)

\* C2: for any two building-type names and any one size,
\* generate_building_sprite returns the same grid and the images rasterized
\* from the two grids are pixel-for-pixel identical.
C2_BuildingNameIgnored ==
    gfn = "building" =>
        \A n1 \in DOMAIN results, n2 \in DOMAIN results :
            /\ results[n1].pixels = results[n2].pixels
            /\ results[n1].img = results[n2].img

C2_Witness ==
    /\ gfn = "building"
    /\ gsize = <<3, 9>>
    /\ {"cave", "tent"} \subseteq DOMAIN results
    /\ results["tent"].img.px[<<0, 4>>] = <<128, 128, 128, 255>>

\* C4: for every icon-type name and size (W, H), cell (x, y) of
\* generate_ui_icon's grid is 'border' iff x<2 or x>=W-2 or y<2 or y>=H-2 and
\* 'background' otherwise; for W=16, on a row with 2<=y<H-2, columns 1 and 14
\* are border and columns 2 and 13 are background.
C4_IconBorder ==
    gfn = "icon" =>
        \A name \in DOMAIN results :
            LET grid == results[name].pixels
                W == gsize[1]
                H == gsize[2]
            IN  /\ Len(grid) = H
                /\ \A y \in 0 .. H - 1 :
                     /\ Len(grid[y + 1]) = W
                     /\ \A x \in 0 .. W - 1 :
                          /\ grid[y + 1][x + 1] \in {"border", "background"}
                          /\ grid[y + 1][x + 1] = "border"
                               <=> (x < 2 \/ x >= W - 2 \/ y < 2 \/ y >= H - 2)
                     /\ W = 16 /\ 2 <= y /\ y < H - 2 =>
                          /\ grid[y + 1][1 + 1] = "border"
                          /\ grid[y + 1][14 + 1] = "border"
                          /\ grid[y + 1][2 + 1] = "background"
                          /\ grid[y + 1][13 + 1] = "background"

C4_Witness ==
    /\ gfn = "icon"
    /\ gsize = <<16, 9>>
    /\ "wood" \in DOMAIN results
    /\ results["wood"].pixels[5][3] = "background"
    /\ results["wood"].pixels[5][15] = "border"

\* the row bands of generate_building_sprite as the claim names them, in
\* the order of the row scan
Bands == <<"roof", "wall", "foundation">>

BandCondition(b, y, H) ==
    CASE b = "roof"       -> y < 4
      [] b = "wall"       -> y < H - 4
      [] b = "foundation" -> y >= H - 4

BandTokenOf(b) ==
    CASE b = "roof"       -> "terrain"
      [] b = "wall"       -> "stone"
      [] b = "foundation" -> "#2F2F2F"

Matching(y, H) == {i \in DOMAIN Bands : BandCondition(Bands[i], y, H)}
Max(S) == CHOOSE m \in S : \A n \in S : n <= m

\* C8 as claimed: for a height below 8, a row that satisfies the conditions
\* of several bands holds the token of the last matching band.
C8_LastBandWins ==
    gfn = "building" /\ gsize[2] < 8 =>
        \A name \in DOMAIN results :
            \A y \in 0 .. gsize[2] - 1, x \in 0 .. gsize[1] - 1 :
                Cardinality(Matching(y, gsize[2])) >= 2 =>
                    results[name].pixels[y + 1][x + 1]
                        = BandTokenOf(Bands[Max(Matching(y, gsize[2]))])

\* C8 (amended): for a height below 8, a row that satisfies the conditions
\* of several bands holds the token of the first matching band: every row
\* y<4 is roof 'terrain', no row is wall 'stone', every row y>=4 is
\* foundation '#2F2F2F'.
C8_FirstBandWins ==
    gfn = "building" /\ gsize[2] < 8 =>
        \A name \in DOMAIN results :
            \A y \in 0 .. gsize[2] - 1, x \in 0 .. gsize[1] - 1 :
                LET tok == results[name].pixels[y + 1][x + 1] IN
                  /\ Cardinality(Matching(y, gsize[2])) >= 2 =>
                        tok = BandTokenOf(Bands[Min(Matching(y, gsize[2]))])
                  /\ y < 4 => tok = "terrain"
                  /\ y >= 4 => tok = "#2F2F2F"

C8_Witness ==
    /\ gfn = "building"
    /\ gsize = <<2, 6>>
    /\ "cave" \in DOMAIN results
    /\ Matching(1, 6) = {1, 2}
    /\ Matching(3, 6) = {1, 3}
    /\ results["cave"].pixels[2][1] = "terrain"
    /\ results["cave"].pixels[4][1] = "terrain"

----------------------------------------------------------------------------
(* Properties of create_pixel_image (SpecRaster) *)

TableBuilt == rpc \in {"scan", "returned", "raised"}
Supplied   == IF Len(palette) = 1 THEN PaletteColors(palette[1]) ELSE {}

\* every token a table, a palette or a classifier names
Tokens ==
    UNION {PaletteColors(PALETTES[era]) : era \in DOMAIN PALETTES}
    \cup {"stone", "terrain", "#2F2F2F", "#8B4513", "#228B22", "#D2B48C",
          "#000000", "#FFFFFF", "skin", "clothing", "hair",
          "terrain_base", "border", "background"}

\* C7 as claimed: with or without a palette, a token other than
\* 'transparent' is a key of the resolution table iff it is an entry of the
\* supplied palette or one of the eight fixed tokens, the same in both cases.
C7_OneFixedSet ==
    TableBuilt =>
        \A tok \in Tokens :
            tok \in DOMAIN color_map
                <=> \/ tok \in Supplied
                    \/ tok \in {"stone", "terrain", "#2F2F2F", "#8B4513", "#228B22",
                                "#D2B48C", "#000000", "#FFFFFF"}

\* C7 (amended): a token other than 'transparent' is a key of the resolution
\* table iff, with a non-empty palette supplied, it is an entry of that
\* palette or one of 'stone', 'terrain', '#2F2F2F', '#000000', '#FFFFFF', and,
\* with no palette or an empty one, it is one of 'stone', 'terrain',
\* '#2F2F2F', '#8B4513', '#228B22', '#D2B48C'; the two fixed sets differ.
C7_TwoFixedSets ==
    TableBuilt =>
        /\ "transparent" \in DOMAIN color_map
        /\ DOMAIN color_map \ {"transparent"} =
             IF Len(palette) = 1 /\ DOMAIN palette[1] # {}
             THEN Supplied \cup {"stone", "terrain", "#2F2F2F", "#000000", "#FFFFFF"}
             ELSE {"stone", "terrain", "#2F2F2F", "#8B4513", "#228B22", "#D2B48C"}

C7_Witness ==
    /\ rpc = "returned"
    /\ palette = Some(PALETTES["ancient"])
    /\ "#8B4513" \notin DOMAIN color_map
    /\ "#000000" \in DOMAIN color_map
    /\ "#D4A574" \in DOMAIN color_map

CallEnded == rpc \in {"returned", "raised"}
InImage   == (0 .. width - 1) \X (0 .. height - 1)

\* C9 as claimed: for every width, height and grid, also a grid with fewer
\* rows than height or a row shorter than width, create_pixel_image does not
\* fail and returns a width x height image in which every pixel with no
\* grid cell is fully transparent, and no grid cell outside the width x
\* height area is read or written.
C9_NeverFails ==
    CallEnded =>
        /\ raised = ""
        /\ rpc = "returned"
        /\ HasSize(img, width, height)
        /\ \A c \in InImage :
             ~GridHasCell(pixels, c[2], c[1]) => img.px[c] = <<0, 0, 0, 0>>
        /\ reads \subseteq InImage

\* what holds of C9 on every call: no IndexError, and whenever the call
\* returns, the image is width x height, transparent where the grid has no
\* cell, with every read inside the area
C9_ShapeTolerated ==
    CallEnded =>
        /\ raised \in {"", "TypeError"}
        /\ reads \subseteq InImage
        /\ rpc = "returned" =>
             /\ HasSize(img, width, height)
             /\ \A c \in InImage :
                  ~GridHasCell(pixels, c[2], c[1]) => img.px[c] = <<0, 0, 0, 0>>
        /\ raised = "TypeError" =>
             \E c \in reads : color_map[pixels[c[2] + 1][c[1] + 1]] = <<pixels[c[2] + 1][c[1] + 1]>>

====
